---- MODULE Spec2Model ----
(***************************************************************************)
(* Forum-topic operations of the telebot client (forum_topic.go).          *)
(*                                                                         *)
(* Every operation builds a string-keyed parameter mapping, hands it with  *)
(* an endpoint name to the Raw call primitive, blocks until Raw returns    *)
(* (data, err), and then either returns err as it is or decodes the JSON   *)
(* envelope.  An invocation is modelled in two steps, split at the one     *)
(* blocking point of the code: the part up to the Raw call, and the part   *)
(* from Raw's return to the operation's own return.                        *)
(*                                                                         *)
(* Go strings are sequences of one-character strings ("Bugs" is            *)
(* <<"B","u","g","s">>, "" is <<>>), so that number formatting and parsing *)
(* are computed digit by digit.  Keys of a Go map and of a JSON object are *)
(* TLA+ strings.                                                           *)
(***************************************************************************)
EXTENDS Integers, Sequences, FiniteSets, TLC

VARIABLES
    pc,       \* caller -> "idle" | "raw" (blocked in b.Raw) | "done" | "panic"
    op,       \* caller -> name of the operation being invoked, or "none"
    args,     \* caller -> the arguments of the invocation
    sent,     \* caller -> sequence of the Raw calls made by the invocation
    reply,    \* caller -> what Raw returned to the invocation
    decoded,  \* caller -> whether the invocation applied json.Unmarshal
    ret       \* caller -> what the invocation returned: [val, err]

vars == <<pc, op, args, sent, reply, decoded, ret>>

(***************************************************************************)
(* Bounds and input sets                                                   *)
(***************************************************************************)
\* Largest thread identifier the callers pass.
MaxThreadID == 120

\* Goroutines that issue operations concurrently.
Callers == {"a", "b"}

\* The caller of the sequential specification.
SeqCallers == {"a"}

Str_Empty == <<>>
Str_Bugs == <<"B", "u", "g", "s">>
Str_Emoji == <<"e", "7">>

\* A nil *Chat, and *Chat values with the given ID.
NilChat == [nil |-> TRUE]
ChatOf(id) == [nil |-> FALSE, ID |-> id]

\* A nil *ForumTopic, and the *ForumTopic values (struct of lines 12-25).
NilTopic == [nil |-> TRUE]
ForumTopic(name, thread, color, emoji) ==
    [nil |-> FALSE, Name |-> name, MessageThreadID |-> thread,
     IconColor |-> color, IconCustomEmojiID |-> emoji]

\* Placeholder for an argument the operation does not take.
Unused == [unused |-> TRUE]

Chats == {NilChat, ChatOf(-1001), ChatOf(42)}
ThreadIDs == {-3, 0, 7, MaxThreadID}
Names == {Str_Empty, Str_Bugs}
Icons == {Str_Empty, Str_Emoji}
IconColors == {0, -1, 7322096, 16478047}
Topics ==
    {NilTopic} \cup
    {ForumTopic(n, 0, c, e) : n \in Names, c \in IconColors, e \in Icons}

\* Reduced inputs of the concurrent specification.
ConcChats == {ChatOf(-1001), ChatOf(42)}
ConcThreadIDs == {0, MaxThreadID}
ConcNames == {Str_Empty, Str_Bugs}
ConcIcons == {Str_Emoji}
ConcTopics == {NilTopic, ForumTopic(Str_Bugs, 0, 7322096, Str_Empty)}

(***************************************************************************)
(* strconv: decimal formatting and parsing                                 *)
(***************************************************************************)
DigitChars == <<"0", "1", "2", "3", "4", "5", "6", "7", "8", "9">>

DigitChar(d) == DigitChars[d + 1]

IsDigit(c) == \E d \in 0..9 : DigitChars[d + 1] = c

DigitVal(c) == CHOOSE d \in 0..9 : DigitChars[d + 1] = c

RECURSIVE FormatUint(_)
FormatUint(n) ==
    IF n < 10 THEN <<DigitChar(n)>>
    ELSE Append(FormatUint(n \div 10), DigitChar(n % 10))

\* strconv.FormatInt(i, 10)
FormatInt(i) == IF i < 0 THEN <<"-">> \o FormatUint(-i) ELSE FormatUint(i)

\* Itoa with a digit loop that emits nothing for zero.
Itoa_ZeroEmpty(i) == IF i = 0 THEN <<>> ELSE FormatInt(i)

\* strconv.Itoa(i)
Itoa(i) == FormatInt(i)

RECURSIVE ParseUint(_)
\* Value of a non-empty sequence of digits.
ParseUint(s) ==
    IF Len(s) = 1 THEN DigitVal(s[1])
    ELSE 10 * ParseUint(SubSeq(s, 1, Len(s) - 1)) + DigitVal(s[Len(s)])

AllDigits(s) == Len(s) > 0 /\ \A i \in 1..Len(s) : IsDigit(s[i])

RECURSIVE StripZeros(_)
\* A sequence of digits without its leading zeros (one digit at least stays).
StripZeros(s) == IF Len(s) > 1 /\ s[1] = "0" THEN StripZeros(Tail(s)) ELSE s

\* Whether the numeral a is at most the numeral b, both without leading
\* zeros: compared digit by digit, no value is computed.
LeqDigits(a, b) ==
    \/ Len(a) < Len(b)
    \/ /\ Len(a) = Len(b)
       /\ \/ a = b
          \/ \E i \in 1..Len(a) :
                 /\ DigitVal(a[i]) < DigitVal(b[i])
                 /\ \A j \in 1..(i - 1) : a[j] = b[j]

\* Width of the Go type int on the build modelled (a 64-bit platform).
IntSize == 64

\* The numerals of 2^(bits-1) - 1 and of 2^(bits-1).
MaxIntDigits(bits) ==
    IF bits = 32 THEN <<"2", "1", "4", "7", "4", "8", "3", "6", "4", "7">>
    ELSE <<"9", "2", "2", "3", "3", "7", "2", "0", "3", "6",
           "8", "5", "4", "7", "7", "5", "8", "0", "7">>
MinIntDigits(bits) ==
    IF bits = 32 THEN <<"2", "1", "4", "7", "4", "8", "3", "6", "4", "8">>
    ELSE <<"9", "2", "2", "3", "3", "7", "2", "0", "3", "6",
           "8", "5", "4", "7", "7", "5", "8", "0", "8">>

\* Parsing of a JSON number literal into a Go integer of the given width:
\* [ok, val].  A literal that is no integer numeral, or whose value is
\* outside the range of the type, does not parse.
ParseInt(s, bits) ==
    IF Len(s) > 1 /\ s[1] = "-" /\ AllDigits(Tail(s))
        THEN IF LeqDigits(StripZeros(Tail(s)), MinIntDigits(bits))
               THEN [ok |-> TRUE, val |-> 0 - ParseUint(Tail(s))]
               ELSE [ok |-> FALSE, val |-> 0]
    ELSE IF AllDigits(s)
        THEN IF LeqDigits(StripZeros(s), MaxIntDigits(bits))
               THEN [ok |-> TRUE, val |-> ParseUint(s)]
               ELSE [ok |-> FALSE, val |-> 0]
    ELSE [ok |-> FALSE, val |-> 0]

(***************************************************************************)
(* Collaborators                                                           *)
(***************************************************************************)
\* chat.Recipient(): the chat's identifier as decimal text.
Recipient(chat) == FormatInt(chat.ID)

NoError == [kind |-> "nil"]
ErrNilTopic == [kind |-> "validation", msg |-> "telebot: forum topic is nil"]
TransportErrors ==
    {[kind |-> "transport", id |-> "net"], [kind |-> "transport", id |-> "api"]}

\* wrapError(err): a new error that keeps err as its cause.
wrapError(err) == [kind |-> "wrapped", cause |-> err]

\* JSON values.  An object is the sequence of its members in document order,
\* each a key (a string) and a value; a key may occur more than once.
JNull == [t |-> "null"]
JBool(b) == [t |-> "bool", b |-> b]
JNum(lit) == [t |-> "number", lit |-> lit]
JStr(s) == [t |-> "string", s |-> s]
JArr(elems) == [t |-> "array", elems |-> elems]
JObj(members) == [t |-> "object", members |-> members]
M(key, val) == [key |-> key, val |-> val]

\* Response bodies: a nil slice, zero bytes, bytes that are not JSON, or a
\* JSON text.
NilData == [kind |-> "nil"]
EmptyData == [kind |-> "empty"]
InvalidData == [kind |-> "invalid"]
JSONData(v) == [kind |-> "json", value |-> v]

K_ok == <<"o", "k">>
K_Result == <<"R", "e", "s", "u", "l", "t">>
K_result == <<"r", "e", "s", "u", "l", "t">>
K_RESULT == <<"R", "E", "S", "U", "L", "T">>
K_name == <<"n", "a", "m", "e">>
K_Name == <<"N", "a", "m", "e">>
K_message_thread_id == <<"m", "e", "s", "s", "a", "g", "e", "_", "t", "h", "r", "e", "a", "d", "_", "i", "d">>
K_MESSAGE_THREAD_ID == <<"M", "E", "S", "S", "A", "G", "E", "_", "T", "H", "R", "E", "A", "D", "_", "I", "D">>
K_icon_color == <<"i", "c", "o", "n", "_", "c", "o", "l", "o", "r">>
K_Icon_Color == <<"I", "c", "o", "n", "_", "C", "o", "l", "o", "r">>
K_icon_custom_emoji_id == <<"i", "c", "o", "n", "_", "c", "u", "s", "t", "o", "m", "_", "e", "m", "o", "j", "i", "_", "i", "d">>
K_file_id == <<"f", "i", "l", "e", "_", "i", "d">>
K_File_ID == <<"F", "i", "l", "e", "_", "I", "D">>
K_emoji == <<"e", "m", "o", "j", "i">>
K_extra == <<"e", "x", "t", "r", "a">>
\* "reſult", spelled with U+017F (long s), which folds to "s".
K_result_long_s == <<"r", "e", "U+017F", "u", "l", "t">>

Topic_Bugs ==
    JObj(<<M(K_name, JStr(Str_Bugs)), M(K_message_thread_id, JNum(<<"1", "2">>)),
           M(K_icon_color, JNum(<<"7", "3", "2", "2", "0", "9", "6">>))>>)
Topic_Emoji ==
    JObj(<<M(K_name, JStr(Str_Bugs)), M(K_message_thread_id, JNum(<<"7">>)),
           M(K_icon_color, JNum(<<"0">>)),
           M(K_icon_custom_emoji_id, JStr(Str_Emoji)), M(K_extra, JBool(TRUE))>>)
Topic_BadName ==
    JObj(<<M(K_name, JNum(<<"5">>)), M(K_message_thread_id, JNum(<<"7">>))>>)
Topic_BadThread ==
    JObj(<<M(K_name, JStr(Str_Bugs)),
           M(K_message_thread_id, JNum(<<"1", ".", "5">>))>>)
Topic_OtherCase ==
    JObj(<<M(K_Name, JStr(Str_Bugs)), M(K_MESSAGE_THREAD_ID, JNum(<<"1", "2">>)),
           M(K_Icon_Color, JNum(<<"7", "3", "2", "2", "0", "9", "6">>))>>)
Topic_BigColor ==
    JObj(<<M(K_name, JStr(Str_Bugs)),
           M(K_icon_color, JNum(MinIntDigits(64)))>>)
Topic_NameOnly == JObj(<<M(K_name, JStr(Str_Bugs))>>)
Topic_ThreadOnly == JObj(<<M(K_message_thread_id, JNum(<<"1", "2">>))>>)
Topic_NameTwice ==
    JObj(<<M(K_name, JNum(<<"5">>)), M(K_Name, JStr(Str_Bugs))>>)
Sticker_1 == JObj(<<M(K_file_id, JStr(<<"f", "1">>))>>)
Sticker_2 == JObj(<<M(K_File_ID, JStr(<<"f", "2">>)), M(K_emoji, JStr(<<"x">>))>>)
Sticker_NoID == JObj(<<M(K_emoji, JStr(<<"x">>))>>)
Ok == M(K_ok, JBool(TRUE))

Bodies ==
    {NilData, EmptyData, InvalidData,
     JSONData(JNull),
     JSONData(JArr(<<>>)),
     JSONData(JObj(<<Ok>>)),
     JSONData(JObj(<<Ok, M(K_result, JNull)>>)),
     JSONData(JObj(<<Ok, M(K_result, JBool(TRUE))>>)),
     JSONData(JObj(<<M(K_Result, Topic_Bugs)>>)),
     JSONData(JObj(<<Ok, M(K_result, Topic_Emoji)>>)),
     JSONData(JObj(<<Ok, M(K_result, Topic_BadName)>>)),
     JSONData(JObj(<<Ok, M(K_result, Topic_BadThread)>>)),
     JSONData(JObj(<<Ok, M(K_result, Topic_NameTwice)>>)),
     JSONData(JObj(<<Ok, M(K_result, Topic_BigColor)>>)),
     JSONData(JObj(<<Ok, M(K_result, Topic_OtherCase)>>)),
     JSONData(JObj(<<Ok, M(K_RESULT, Topic_ThreadOnly)>>)),
     JSONData(JObj(<<Ok, M(K_result_long_s, Topic_NameOnly)>>)),
     JSONData(JObj(<<M(K_Result, JNull), M(K_result, Topic_NameOnly)>>)),
     JSONData(JObj(<<M(K_result, Topic_NameOnly), M(K_Result, JNull)>>)),
     JSONData(JObj(<<M(K_result, Topic_NameOnly), M(K_RESULT, Topic_ThreadOnly)>>)),
     JSONData(JObj(<<Ok, M(K_result, JArr(<<>>))>>)),
     JSONData(JObj(<<Ok, M(K_result, JArr(<<Sticker_1, Sticker_2>>))>>)),
     JSONData(JObj(<<Ok, M(K_RESULT, JArr(<<Sticker_1>>))>>)),
     JSONData(JObj(<<M(K_result, JArr(<<Sticker_1, Sticker_2>>)),
                     M(K_Result, JArr(<<Sticker_NoID>>))>>)),
     JSONData(JObj(<<M(K_result, JArr(<<Sticker_1, Sticker_2>>)),
                     M(K_Result, JArr(<<JObj(<<>>)>>)),
                     M(K_RESULT, JArr(<<JObj(<<>>), Sticker_NoID>>))>>))}

\* What b.Raw can return: any body with no error or with a transport error.
Replies == [data : Bodies, err : {NoError} \cup TransportErrors]

ConcReplies ==
    [data : {InvalidData, JSONData(JObj(<<M(K_Result, Topic_Bugs)>>))},
     err : {NoError, [kind |-> "transport", id |-> "net"]}]

(***************************************************************************)
(* encoding/json: json.Unmarshal into the two response envelopes           *)
(***************************************************************************)
SyntaxError == [kind |-> "json", what |-> "syntax"]
TypeError == [kind |-> "json", what |-> "type"]

\* Whether the bytes are a JSON text (json.Unmarshal checks this first).
ValidJSON(data) == data.kind = "json"

UpperChars == <<"A", "B", "C", "D", "E", "F", "G", "H", "I", "J", "K", "L", "M",
                "N", "O", "P", "Q", "R", "S", "T", "U", "V", "W", "X", "Y", "Z">>
LowerChars == <<"a", "b", "c", "d", "e", "f", "g", "h", "i", "j", "k", "l", "m",
                "n", "o", "p", "q", "r", "s", "t", "u", "v", "w", "x", "y", "z">>

\* The character a character folds to: letters to lower case, U+017F (long
\* s) to "s", U+212A (Kelvin sign) to "k".
FoldChar(c) ==
    IF \E i \in 1..Len(UpperChars) : UpperChars[i] = c
        THEN LowerChars[CHOOSE i \in 1..Len(UpperChars) : UpperChars[i] = c]
    ELSE IF c = "U+017F" THEN "s"
    ELSE IF c = "U+212A" THEN "k"
    ELSE c

\* A key of the document names a struct field when the two are equal under
\* case folding.
EqualFold(key, field) ==
    /\ Len(key) = Len(field)
    /\ \A i \in 1..Len(key) : FoldChar(key[i]) = FoldChar(field[i])

\* The name the one field of the response envelope goes by.
ResultField == K_Result

\* A JSON value into a Go string field holding cur: [ok, val].
DecodeString(cur, v) ==
    IF v.t = "null" THEN [ok |-> TRUE, val |-> cur]
    ELSE IF v.t = "string" THEN [ok |-> TRUE, val |-> v.s]
    ELSE [ok |-> FALSE, val |-> cur]

\* A JSON value into a Go integer field of the given width holding cur:
\* [ok, val].
DecodeInt(cur, v, bits) ==
    IF v.t = "null" THEN [ok |-> TRUE, val |-> cur]
    ELSE IF v.t = "number" /\ ParseInt(v.lit, bits).ok THEN ParseInt(v.lit, bits)
    ELSE [ok |-> FALSE, val |-> cur]

\* One member of a JSON object into the ForumTopic st.val; st.ok tells that
\* no type error has occurred so far.
DecodeForumTopicMember(st, m) ==
    LET t == st.val
    IN  IF EqualFold(m.key, K_name) THEN
            LET r == DecodeString(t.Name, m.val)
            IN  [ok |-> st.ok /\ r.ok, val |-> [t EXCEPT !.Name = r.val]]
        ELSE IF EqualFold(m.key, K_message_thread_id) THEN
            LET r == DecodeInt(t.MessageThreadID, m.val, IntSize)
            IN  [ok |-> st.ok /\ r.ok, val |-> [t EXCEPT !.MessageThreadID = r.val]]
        ELSE IF EqualFold(m.key, K_icon_color) THEN
            LET r == DecodeInt(t.IconColor, m.val, 64)
            IN  [ok |-> st.ok /\ r.ok, val |-> [t EXCEPT !.IconColor = r.val]]
        ELSE IF EqualFold(m.key, K_icon_custom_emoji_id) THEN
            LET r == DecodeString(t.IconCustomEmojiID, m.val)
            IN  [ok |-> st.ok /\ r.ok, val |-> [t EXCEPT !.IconCustomEmojiID = r.val]]
        ELSE st

RECURSIVE DecodeForumTopicMembers(_, _)
\* The members of a JSON object, in document order, into a ForumTopic.
DecodeForumTopicMembers(st, ms) ==
    IF ms = <<>> THEN st
    ELSE DecodeForumTopicMembers(DecodeForumTopicMember(st, Head(ms)), Tail(ms))

\* The zero ForumTopic a nil pointer is set to before a value is decoded.
ZeroForumTopic == ForumTopic(Str_Empty, 0, 0, Str_Empty)

\* A JSON value into the field Result *ForumTopic holding cur: [ok, val].
\* null sets the pointer to nil; for any other value a nil pointer is first
\* set to a new ForumTopic, and an object is decoded into what it points to.
DecodeForumTopic(cur, v) ==
    IF v.t = "null" THEN [ok |-> TRUE, val |-> [kind |-> "nil"]]
    ELSE LET target == IF cur.kind = "nil" THEN ZeroForumTopic ELSE cur.topic
         IN  IF v.t # "object"
               THEN [ok |-> FALSE, val |-> [kind |-> "topic", topic |-> target]]
               ELSE LET r == DecodeForumTopicMembers(
                                 [ok |-> TRUE, val |-> target], v.members)
                    IN  [ok |-> r.ok, val |-> [kind |-> "topic", topic |-> r.val]]

ZeroSticker == [FileID |-> Str_Empty]

RECURSIVE DecodeStickerMembers(_, _)
\* The members of a JSON object, in document order, into a Sticker.
DecodeStickerMembers(st, ms) ==
    IF ms = <<>> THEN st
    ELSE LET m == Head(ms)
             r == DecodeString(st.val.FileID, m.val)
             nx == IF EqualFold(m.key, K_file_id)
                     THEN [ok |-> st.ok /\ r.ok, val |-> [FileID |-> r.val]]
                     ELSE st
         IN  DecodeStickerMembers(nx, Tail(ms))

\* A JSON value into a Sticker holding cur: [ok, val].
DecodeSticker(cur, v) ==
    IF v.t = "null" THEN [ok |-> TRUE, val |-> cur]
    ELSE IF v.t # "object" THEN [ok |-> FALSE, val |-> cur]
    ELSE DecodeStickerMembers([ok |-> TRUE, val |-> cur], v.members)

\* A JSON value into the field Result []Sticker holding cur: [ok, val].
\* A slice is its elements (list) and the elements an earlier, longer array
\* left in its backing array past its length (stale).  null sets the slice
\* to nil and an empty array to a new empty slice; otherwise the i-th
\* element of the array is decoded into the i-th element of the backing
\* array, past it into a new one, and the slice is cut or extended to the
\* length of the array.
DecodeStickers(cur, v) ==
    IF v.t = "null" THEN [ok |-> TRUE, val |-> [kind |-> "nil"]]
    ELSE IF v.t # "array" THEN [ok |-> FALSE, val |-> cur]
    ELSE LET old == IF cur.kind = "nil" THEN <<>> ELSE cur.list \o cur.stale
             n == Len(v.elems)
             el(i) == DecodeSticker(IF i <= Len(old) THEN old[i] ELSE ZeroSticker,
                                    v.elems[i])
         IN  [ok |-> \A i \in 1..n : el(i).ok,
              val |-> [kind |-> "stickers",
                       list |-> [i \in 1..n |-> el(i).val],
                       stale |-> IF n = 0 \/ n >= Len(old) THEN <<>>
                                 ELSE SubSeq(old, n + 1, Len(old))]]

\* A JSON value into the field Result of type T holding cur.
DecodeResult(T, cur, v) ==
    IF T = "*ForumTopic" THEN DecodeForumTopic(cur, v) ELSE DecodeStickers(cur, v)

RECURSIVE DecodeEnvelopeMembers(_, _, _)
\* The members of the response object, in document order, into
\* struct{ Result T }: every member whose key names Result is decoded into
\* the field, the others are skipped; a type error is kept and decoding
\* goes on.
DecodeEnvelopeMembers(T, st, ms) ==
    IF ms = <<>> THEN st
    ELSE LET m == Head(ms)
             r == DecodeResult(T, st.val, m.val)
             nx == IF EqualFold(m.key, ResultField)
                     THEN [ok |-> st.ok /\ r.ok, val |-> r.val]
                     ELSE st
         IN  DecodeEnvelopeMembers(T, nx, Tail(ms))

\* json.Unmarshal(data, &resp) for resp of type struct{ Result T }:
\* [err, Result].
Unmarshal(data, T) ==
    IF ~ValidJSON(data) THEN [err |-> SyntaxError, Result |-> [kind |-> "nil"]]
    ELSE IF data.value.t = "null" THEN [err |-> NoError, Result |-> [kind |-> "nil"]]
    ELSE IF data.value.t # "object" THEN [err |-> TypeError, Result |-> [kind |-> "nil"]]
    ELSE LET r == DecodeEnvelopeMembers(T, [ok |-> TRUE, val |-> [kind |-> "nil"]],
                                        data.value.members)
         IN  [err |-> IF r.ok THEN NoError ELSE TypeError,
              Result |-> IF r.val.kind = "stickers"
                           THEN [kind |-> "stickers", list |-> r.val.list]
                           ELSE r.val]

(***************************************************************************)
(* The state machine                                                       *)
(***************************************************************************)
NoArgs == [chat |-> Unused, ft |-> Unused, msgThreadID |-> Unused,
           name |-> Unused, icon |-> Unused]
NoReply == [data |-> NilData, err |-> NoError]
NoReturn == [val |-> [kind |-> "none"], err |-> NoError]

Init ==
    /\ pc = [p \in Callers |-> "idle"]
    /\ op = [p \in Callers |-> "none"]
    /\ args = [p \in Callers |-> NoArgs]
    /\ sent = [p \in Callers |-> <<>>]
    /\ reply = [p \in Callers |-> NoReply]
    /\ decoded = [p \in Callers |-> FALSE]
    /\ ret = [p \in Callers |-> NoReturn]

\* A caller enters operation o with arguments a.
Enter(p, o, a) ==
    /\ pc[p] = "idle"
    /\ op' = [op EXCEPT ![p] = o]
    /\ args' = [args EXCEPT ![p] = a]

\* b.Raw(endpoint, params): the call is issued and the caller blocks in it.
Raw(p, endpoint, params) ==
    /\ pc' = [pc EXCEPT ![p] = "raw"]
    /\ sent' = [sent EXCEPT ![p] = Append(@, [endpoint |-> endpoint, params |-> params])]
    /\ UNCHANGED <<reply, decoded, ret>>

\* Dereference of a nil *Chat in chat.Recipient(): the goroutine panics.
Panic(p) ==
    /\ pc' = [pc EXCEPT ![p] = "panic"]
    /\ UNCHANGED <<sent, reply, decoded, ret>>

\* The operation returns (val, err) to its caller.
Return(p, val, err) ==
    /\ pc' = [pc EXCEPT ![p] = "done"]
    /\ ret' = [ret EXCEPT ![p] = [val |-> val, err |-> err]]

\* Raw returns r to the caller blocked in operation o.
RawReturns(p, o, r) ==
    /\ pc[p] = "raw"
    /\ op[p] = o
    /\ reply' = [reply EXCEPT ![p] = r]
    /\ UNCHANGED <<op, args, sent>>

\* The map literal with a key added when cond holds.
WithIf(params, cond, key, value) ==
    IF cond THEN [k \in DOMAIN params \cup {key} |->
                     IF k = key THEN value ELSE params[k]]
    ELSE params

----
\* CreateForumTopic with chat.Recipient() evaluated ahead of the nil check.
CreateForumTopic_RecipientFirst(p, chat, ft) ==
    /\ Enter(p, "CreateForumTopic", [NoArgs EXCEPT !.chat = chat, !.ft = ft])
    /\ IF chat.nil THEN Panic(p)
       ELSE IF ft.nil
         THEN /\ Return(p, [kind |-> "nil"], ErrNilTopic)
              /\ UNCHANGED <<sent, reply, decoded>>
       ELSE LET params0 == [chat_id |-> Recipient(chat), name |-> ft.Name]
                params1 == WithIf(params0, ft.IconColor # 0,
                                  "icon_color", FormatInt(ft.IconColor))
                params2 == WithIf(params1, ft.IconCustomEmojiID # Str_Empty,
                                  "icon_custom_emoji_id", ft.IconCustomEmojiID)
            IN  Raw(p, "createForumTopic", params2)

\* CreateForumTopic, up to the Raw call.
CreateForumTopic(p, chat, ft) ==
    /\ Enter(p, "CreateForumTopic", [NoArgs EXCEPT !.chat = chat, !.ft = ft])
    /\ IF ft.nil
         THEN /\ Return(p, [kind |-> "nil"], ErrNilTopic)
              /\ UNCHANGED <<sent, reply, decoded>>
       ELSE IF chat.nil THEN Panic(p)
       ELSE LET params0 == [chat_id |-> Recipient(chat), name |-> ft.Name]
                params1 == WithIf(params0, ft.IconColor # 0,
                                  "icon_color", FormatInt(ft.IconColor))
                params2 == WithIf(params1, ft.IconCustomEmojiID # Str_Empty,
                                  "icon_custom_emoji_id", ft.IconCustomEmojiID)
            IN  Raw(p, "createForumTopic", params2)

\* CreateForumTopic wrapping the error of Raw.
CreateForumTopicReturn_WrapsTransport(p, r) ==
    /\ RawReturns(p, "CreateForumTopic", r)
    /\ IF r.err # NoError
         THEN /\ Return(p, [kind |-> "nil"], wrapError(r.err))
              /\ UNCHANGED decoded
       ELSE LET resp == Unmarshal(r.data, "*ForumTopic")
            IN  /\ decoded' = [decoded EXCEPT ![p] = TRUE]
                /\ IF resp.err # NoError
                     THEN Return(p, [kind |-> "nil"], wrapError(resp.err))
                     ELSE Return(p, resp.Result, NoError)

\* CreateForumTopic reporting a missing Result as a failure.
CreateForumTopicReturn_NilResultFails(p, r) ==
    /\ RawReturns(p, "CreateForumTopic", r)
    /\ IF r.err # NoError
         THEN /\ Return(p, [kind |-> "nil"], r.err)
              /\ UNCHANGED decoded
       ELSE LET resp == Unmarshal(r.data, "*ForumTopic")
            IN  /\ decoded' = [decoded EXCEPT ![p] = TRUE]
                /\ IF resp.err # NoError \/ resp.Result.kind = "nil"
                     THEN Return(p, [kind |-> "nil"], wrapError(resp.err))
                     ELSE Return(p, resp.Result, NoError)

\* CreateForumTopic, from Raw's return.
CreateForumTopicReturn(p, r) ==
    /\ RawReturns(p, "CreateForumTopic", r)
    /\ IF r.err # NoError
         THEN /\ Return(p, [kind |-> "nil"], r.err)
              /\ UNCHANGED decoded
       ELSE LET resp == Unmarshal(r.data, "*ForumTopic")
            IN  /\ decoded' = [decoded EXCEPT ![p] = TRUE]
                /\ IF resp.err # NoError
                     THEN Return(p, [kind |-> "nil"], wrapError(resp.err))
                     ELSE Return(p, resp.Result, NoError)

\* The parameters of the operations on one topic.
ThreadParams(chat, msgThreadID) ==
    [chat_id |-> Recipient(chat), message_thread_id |-> Itoa(msgThreadID)]

\* The parameters of the operations on the General topic.
ChatParams(chat) == [chat_id |-> Recipient(chat)]

\* EditForumTopic without the test for an empty name.
EditForumTopic_AlwaysName(p, chat, msgThreadID, name, icon) ==
    /\ Enter(p, "EditForumTopic",
             [NoArgs EXCEPT !.chat = chat, !.msgThreadID = msgThreadID,
                            !.name = name, !.icon = icon])
    /\ IF chat.nil THEN Panic(p)
       ELSE LET params0 == ThreadParams(chat, msgThreadID)
                params1 == WithIf(params0, TRUE, "name", name)
                params2 == WithIf(params1, icon # Str_Empty,
                                  "icon_custom_emoji_id", icon)
            IN  Raw(p, "editForumTopic", params2)

\* EditForumTopic filling one map shared by all invocations: the entries of
\* an invocation still blocked in Raw are in it.
EditForumTopic_SharedParams(p, chat, msgThreadID, name, icon) ==
    /\ Enter(p, "EditForumTopic",
             [NoArgs EXCEPT !.chat = chat, !.msgThreadID = msgThreadID,
                            !.name = name, !.icon = icon])
    /\ IF chat.nil THEN Panic(p)
       ELSE LET others == {q \in Callers \ {p} : pc[q] = "raw"}
                shared == IF others = {} THEN [k \in {} |-> Str_Empty]
                          ELSE sent[CHOOSE q \in others : TRUE][1].params
                own == ThreadParams(chat, msgThreadID)
                params0 == [k \in DOMAIN shared \cup DOMAIN own |->
                               IF k \in DOMAIN own THEN own[k] ELSE shared[k]]
                params1 == WithIf(params0, name # Str_Empty, "name", name)
                params2 == WithIf(params1, icon # Str_Empty,
                                  "icon_custom_emoji_id", icon)
            IN  Raw(p, "editForumTopic", params2)

EditForumTopic(p, chat, msgThreadID, name, icon) ==
    /\ Enter(p, "EditForumTopic",
             [NoArgs EXCEPT !.chat = chat, !.msgThreadID = msgThreadID,
                            !.name = name, !.icon = icon])
    /\ IF chat.nil THEN Panic(p)
       ELSE LET params0 == ThreadParams(chat, msgThreadID)
                params1 == WithIf(params0, name # Str_Empty, "name", name)
                params2 == WithIf(params1, icon # Str_Empty,
                                  "icon_custom_emoji_id", icon)
            IN  Raw(p, "editForumTopic", params2)

EditForumTopicReturn(p, r) ==
    /\ RawReturns(p, "EditForumTopic", r)
    /\ Return(p, [kind |-> "none"], r.err)
    /\ UNCHANGED decoded

CloseForumTopic(p, chat, msgThreadID) ==
    /\ Enter(p, "CloseForumTopic",
             [NoArgs EXCEPT !.chat = chat, !.msgThreadID = msgThreadID])
    /\ IF chat.nil THEN Panic(p)
       ELSE Raw(p, "closeForumTopic", ThreadParams(chat, msgThreadID))

\* CloseForumTopic calling Raw once more after a failed call.
CloseForumTopicReturn_Retries(p, r) ==
    /\ pc[p] = "raw"
    /\ op[p] = "CloseForumTopic"
    /\ reply' = [reply EXCEPT ![p] = r]
    /\ IF r.err # NoError /\ Len(sent[p]) = 1
         THEN /\ sent' = [sent EXCEPT ![p] = Append(@, @[1])]
              /\ UNCHANGED <<pc, op, args, decoded, ret>>
         ELSE /\ Return(p, [kind |-> "none"], r.err)
              /\ UNCHANGED <<op, args, sent, decoded>>

CloseForumTopicReturn(p, r) ==
    /\ RawReturns(p, "CloseForumTopic", r)
    /\ Return(p, [kind |-> "none"], r.err)
    /\ UNCHANGED decoded

ReopenForumTopic(p, chat, msgThreadID) ==
    /\ Enter(p, "ReopenForumTopic",
             [NoArgs EXCEPT !.chat = chat, !.msgThreadID = msgThreadID])
    /\ IF chat.nil THEN Panic(p)
       ELSE Raw(p, "reopenForumTopic", ThreadParams(chat, msgThreadID))

ReopenForumTopicReturn(p, r) ==
    /\ RawReturns(p, "ReopenForumTopic", r)
    /\ Return(p, [kind |-> "none"], r.err)
    /\ UNCHANGED decoded

DeleteForumTopic(p, chat, msgThreadID) ==
    /\ Enter(p, "DeleteForumTopic",
             [NoArgs EXCEPT !.chat = chat, !.msgThreadID = msgThreadID])
    /\ IF chat.nil THEN Panic(p)
       ELSE Raw(p, "deleteForumTopic", ThreadParams(chat, msgThreadID))

DeleteForumTopicReturn(p, r) ==
    /\ RawReturns(p, "DeleteForumTopic", r)
    /\ Return(p, [kind |-> "none"], r.err)
    /\ UNCHANGED decoded

UnpinAllForumTopicMessages(p, chat, msgThreadID) ==
    /\ Enter(p, "UnpinAllForumTopicMessages",
             [NoArgs EXCEPT !.chat = chat, !.msgThreadID = msgThreadID])
    /\ IF chat.nil THEN Panic(p)
       ELSE Raw(p, "unpinAllForumTopicMessages", ThreadParams(chat, msgThreadID))

UnpinAllForumTopicMessagesReturn(p, r) ==
    /\ RawReturns(p, "UnpinAllForumTopicMessages", r)
    /\ Return(p, [kind |-> "none"], r.err)
    /\ UNCHANGED decoded

\* A nil map[string]string passed to Raw.
NilParams == [k \in {} |-> Str_Empty]

GetForumTopicIconStickers(p) ==
    /\ Enter(p, "GetForumTopicIconStickers", NoArgs)
    /\ Raw(p, "getForumTopicIconStickers", NilParams)

\* GetForumTopicIconStickers dropping the error of json.Unmarshal.
GetForumTopicIconStickersReturn_IgnoresDecodeError(p, r) ==
    /\ RawReturns(p, "GetForumTopicIconStickers", r)
    /\ IF r.err # NoError
         THEN /\ Return(p, [kind |-> "nil"], r.err)
              /\ UNCHANGED decoded
       ELSE LET resp == Unmarshal(r.data, "[]Sticker")
            IN  /\ decoded' = [decoded EXCEPT ![p] = TRUE]
                /\ Return(p, resp.Result, NoError)

GetForumTopicIconStickersReturn(p, r) ==
    /\ RawReturns(p, "GetForumTopicIconStickers", r)
    /\ IF r.err # NoError
         THEN /\ Return(p, [kind |-> "nil"], r.err)
              /\ UNCHANGED decoded
       ELSE LET resp == Unmarshal(r.data, "[]Sticker")
            IN  /\ decoded' = [decoded EXCEPT ![p] = TRUE]
                /\ IF resp.err # NoError
                     THEN Return(p, [kind |-> "nil"], wrapError(resp.err))
                     ELSE Return(p, resp.Result, NoError)

EditGeneralForumTopic(p, chat, name) ==
    /\ Enter(p, "EditGeneralForumTopic",
             [NoArgs EXCEPT !.chat = chat, !.name = name])
    /\ IF chat.nil THEN Panic(p)
       ELSE Raw(p, "editGeneralForumTopic",
                [chat_id |-> Recipient(chat), name |-> name])

EditGeneralForumTopicReturn(p, r) ==
    /\ RawReturns(p, "EditGeneralForumTopic", r)
    /\ Return(p, [kind |-> "none"], r.err)
    /\ UNCHANGED decoded

CloseGeneralForumTopic(p, chat) ==
    /\ Enter(p, "CloseGeneralForumTopic", [NoArgs EXCEPT !.chat = chat])
    /\ IF chat.nil THEN Panic(p)
       ELSE Raw(p, "closeGeneralForumTopic", ChatParams(chat))

CloseGeneralForumTopicReturn(p, r) ==
    /\ RawReturns(p, "CloseGeneralForumTopic", r)
    /\ Return(p, [kind |-> "none"], r.err)
    /\ UNCHANGED decoded

\* ReopenGeneralForumTopic with the endpoint of the function copied from.
ReopenGeneralForumTopic_CloseEndpoint(p, chat) ==
    /\ Enter(p, "ReopenGeneralForumTopic", [NoArgs EXCEPT !.chat = chat])
    /\ IF chat.nil THEN Panic(p)
       ELSE Raw(p, "closeGeneralForumTopic", ChatParams(chat))

ReopenGeneralForumTopic(p, chat) ==
    /\ Enter(p, "ReopenGeneralForumTopic", [NoArgs EXCEPT !.chat = chat])
    /\ IF chat.nil THEN Panic(p)
       ELSE Raw(p, "reopenGeneralForumTopic", ChatParams(chat))

ReopenGeneralForumTopicReturn(p, r) ==
    /\ RawReturns(p, "ReopenGeneralForumTopic", r)
    /\ Return(p, [kind |-> "none"], r.err)
    /\ UNCHANGED decoded

HideGeneralForumTopic(p, chat) ==
    /\ Enter(p, "HideGeneralForumTopic", [NoArgs EXCEPT !.chat = chat])
    /\ IF chat.nil THEN Panic(p)
       ELSE Raw(p, "hideGeneralForumTopic", ChatParams(chat))

\* HideGeneralForumTopic decoding the body as the value-returning ones do.
HideGeneralForumTopicReturn_Decodes(p, r) ==
    /\ RawReturns(p, "HideGeneralForumTopic", r)
    /\ IF r.err # NoError
         THEN /\ Return(p, [kind |-> "none"], r.err)
              /\ UNCHANGED decoded
       ELSE LET resp == Unmarshal(r.data, "*ForumTopic")
            IN  /\ decoded' = [decoded EXCEPT ![p] = TRUE]
                /\ IF resp.err # NoError
                     THEN Return(p, [kind |-> "none"], wrapError(resp.err))
                     ELSE Return(p, [kind |-> "none"], NoError)

HideGeneralForumTopicReturn(p, r) ==
    /\ RawReturns(p, "HideGeneralForumTopic", r)
    /\ Return(p, [kind |-> "none"], r.err)
    /\ UNCHANGED decoded

UnhideGeneralForumTopic(p, chat) ==
    /\ Enter(p, "UnhideGeneralForumTopic", [NoArgs EXCEPT !.chat = chat])
    /\ IF chat.nil THEN Panic(p)
       ELSE Raw(p, "unhideGeneralForumTopic", ChatParams(chat))

UnhideGeneralForumTopicReturn(p, r) ==
    /\ RawReturns(p, "UnhideGeneralForumTopic", r)
    /\ Return(p, [kind |-> "none"], r.err)
    /\ UNCHANGED decoded

\* The caller takes the result and is free to invoke the next operation.
NextInvocation(p) ==
    /\ pc[p] = "done"
    /\ pc' = [pc EXCEPT ![p] = "idle"]
    /\ op' = [op EXCEPT ![p] = "none"]
    /\ args' = [args EXCEPT ![p] = NoArgs]
    /\ sent' = [sent EXCEPT ![p] = <<>>]
    /\ reply' = [reply EXCEPT ![p] = NoReply]
    /\ decoded' = [decoded EXCEPT ![p] = FALSE]
    /\ ret' = [ret EXCEPT ![p] = NoReturn]

----
\* One step of caller p, its inputs drawn from the given sets.
Step(p, C, T, F, N, I, R) ==
    \/ \E chat \in C, ft \in F : CreateForumTopic(p, chat, ft)
    \/ \E r \in R : CreateForumTopicReturn(p, r)
    \/ \E chat \in C, t \in T, name \in N, icon \in I :
           EditForumTopic(p, chat, t, name, icon)
    \/ \E r \in R : EditForumTopicReturn(p, r)
    \/ \E chat \in C, t \in T : CloseForumTopic(p, chat, t)
    \/ \E r \in R : CloseForumTopicReturn(p, r)
    \/ \E chat \in C, t \in T : ReopenForumTopic(p, chat, t)
    \/ \E r \in R : ReopenForumTopicReturn(p, r)
    \/ \E chat \in C, t \in T : DeleteForumTopic(p, chat, t)
    \/ \E r \in R : DeleteForumTopicReturn(p, r)
    \/ \E chat \in C, t \in T : UnpinAllForumTopicMessages(p, chat, t)
    \/ \E r \in R : UnpinAllForumTopicMessagesReturn(p, r)
    \/ GetForumTopicIconStickers(p)
    \/ \E r \in R : GetForumTopicIconStickersReturn(p, r)
    \/ \E chat \in C, name \in N : EditGeneralForumTopic(p, chat, name)
    \/ \E r \in R : EditGeneralForumTopicReturn(p, r)
    \/ \E chat \in C : CloseGeneralForumTopic(p, chat)
    \/ \E r \in R : CloseGeneralForumTopicReturn(p, r)
    \/ \E chat \in C : ReopenGeneralForumTopic(p, chat)
    \/ \E r \in R : ReopenGeneralForumTopicReturn(p, r)
    \/ \E chat \in C : HideGeneralForumTopic(p, chat)
    \/ \E r \in R : HideGeneralForumTopicReturn(p, r)
    \/ \E chat \in C : UnhideGeneralForumTopic(p, chat)
    \/ \E r \in R : UnhideGeneralForumTopicReturn(p, r)
    \/ NextInvocation(p)

\* One caller, the full input sets.
Next ==
    \E p \in SeqCallers : Step(p, Chats, ThreadIDs, Topics, Names, Icons, Replies)

Spec == Init /\ [][Next]_vars

\* Concurrent callers, reduced input sets.
NextConc ==
    \E p \in Callers :
        Step(p, ConcChats, ConcThreadIDs, ConcTopics, ConcNames, ConcIcons, ConcReplies)

SpecConc == Init /\ [][NextConc]_vars

(***************************************************************************)
(* Properties                                                              *)
(***************************************************************************)
\* The invocation of caller p has made a Raw call.
Called(p) == Len(sent[p]) > 0

\* The invocation of caller p has returned after Raw returned to it.
Completed(p) == pc[p] = "done" /\ Called(p)

ErrorOnlyOps ==
    {"EditForumTopic", "CloseForumTopic", "ReopenForumTopic", "DeleteForumTopic",
     "UnpinAllForumTopicMessages", "EditGeneralForumTopic",
     "CloseGeneralForumTopic", "ReopenGeneralForumTopic",
     "HideGeneralForumTopic", "UnhideGeneralForumTopic"}

DecodingOps == {"CreateForumTopic", "GetForumTopicIconStickers"}

ThreadOps ==
    {"EditForumTopic", "CloseForumTopic", "ReopenForumTopic", "DeleteForumTopic",
     "UnpinAllForumTopicMessages"}

\* C1: CreateForumTopic with a nil topic returns a nil topic and the local
\* validation error, having made no Raw call, whatever the chat argument is
\* (a nil chat included).
C1_NilTopicFailsBeforeAnyCall ==
    \A p \in Callers :
        (op[p] = "CreateForumTopic" /\ args[p].ft.nil) =>
            /\ pc[p] = "done"
            /\ ret[p].val.kind = "nil"
            /\ ret[p].err = ErrNilTopic
            /\ Len(sent[p]) = 0
            /\ ~decoded[p]

C1_Witness ==
    \E p \in Callers :
        /\ op[p] = "CreateForumTopic" /\ args[p].ft.nil /\ args[p].chat.nil
        /\ pc[p] = "done" /\ ret[p].err = ErrNilTopic

\* The keys the claim C2 lists for operation o with arguments a.
C2_Keys(o, a) ==
    CASE o = "CreateForumTopic" ->
            {"chat_id", "name"}
            \cup (IF a.ft.IconColor # 0 THEN {"icon_color"} ELSE {})
            \cup (IF a.ft.IconCustomEmojiID # Str_Empty
                    THEN {"icon_custom_emoji_id"} ELSE {})
      [] o = "EditForumTopic" ->
            {"chat_id", "message_thread_id"}
            \cup (IF a.name # Str_Empty THEN {"name"} ELSE {})
            \cup (IF a.icon # Str_Empty THEN {"icon_custom_emoji_id"} ELSE {})
      [] o \in ThreadOps \ {"EditForumTopic"} -> {"chat_id", "message_thread_id"}
      [] o = "EditGeneralForumTopic" -> {"chat_id", "name"}
      [] o = "GetForumTopicIconStickers" -> {}
      [] OTHER -> {"chat_id"}

\* C2: the parameter mapping of every Raw call holds exactly the required
\* keys of its operation plus each optional key whose source value is
\* non-empty or non-zero.
C2_ExactParameterKeys ==
    \A p \in Callers :
        \A i \in 1..Len(sent[p]) :
            DOMAIN sent[p][i].params = C2_Keys(op[p], args[p])

C2_Witness ==
    \E p \in Callers :
        /\ op[p] = "EditForumTopic" /\ Called(p)
        /\ args[p].name = Str_Empty /\ args[p].icon # Str_Empty
        /\ DOMAIN sent[p][1].params =
               {"chat_id", "message_thread_id", "icon_custom_emoji_id"}

\* C3: when Raw returns an error, the operation returns that very error, a
\* nil value where it returns a value, and does not decode the body.
C3_TransportErrorUnchanged ==
    \A p \in Callers :
        (Completed(p) /\ reply[p].err # NoError) =>
            /\ ret[p].err = reply[p].err
            /\ ~decoded[p]
            /\ (op[p] \in DecodingOps => ret[p].val.kind = "nil")

C3_Witness ==
    \E p \in Callers :
        /\ Completed(p) /\ op[p] = "CreateForumTopic"
        /\ reply[p].err \in TransportErrors
        /\ reply[p].data = JSONData(JObj(<<M(K_Result, Topic_Bugs)>>))
        /\ ret[p].err = reply[p].err

\* C4: when Raw succeeds and the body is not JSON, CreateForumTopic and
\* GetForumTopicIconStickers return a nil value and a wrapped decoding error.
C4_MalformedBodyIsDecodingError ==
    \A p \in Callers :
        (Completed(p) /\ op[p] \in DecodingOps /\ reply[p].err = NoError
         /\ reply[p].data.kind # "json") =>
            /\ ret[p].val.kind = "nil"
            /\ ret[p].err.kind = "wrapped"
            /\ ret[p].err.cause = SyntaxError

C4_Witness ==
    \E p \in Callers :
        /\ Completed(p) /\ op[p] = "GetForumTopicIconStickers"
        /\ reply[p].err = NoError /\ reply[p].data = InvalidData
        /\ ret[p].err.kind = "wrapped"

\* The endpoint the claim C5 names for each operation.
C5_Endpoint ==
    [CreateForumTopic |-> "createForumTopic",
     EditForumTopic |-> "editForumTopic",
     CloseForumTopic |-> "closeForumTopic",
     ReopenForumTopic |-> "reopenForumTopic",
     DeleteForumTopic |-> "deleteForumTopic",
     UnpinAllForumTopicMessages |-> "unpinAllForumTopicMessages",
     GetForumTopicIconStickers |-> "getForumTopicIconStickers",
     EditGeneralForumTopic |-> "editGeneralForumTopic",
     CloseGeneralForumTopic |-> "closeGeneralForumTopic",
     ReopenGeneralForumTopic |-> "reopenGeneralForumTopic",
     HideGeneralForumTopic |-> "hideGeneralForumTopic",
     UnhideGeneralForumTopic |-> "unhideGeneralForumTopic"]

\* C5: every Raw call of an operation names that operation's own endpoint,
\* and no endpoint belongs to two operations.
C5_OneEndpointPerOperation ==
    /\ \A p \in Callers :
           \A i \in 1..Len(sent[p]) :
               /\ op[p] \in DOMAIN C5_Endpoint
               /\ sent[p][i].endpoint = C5_Endpoint[op[p]]
    /\ \A o1, o2 \in DOMAIN C5_Endpoint :
           C5_Endpoint[o1] = C5_Endpoint[o2] => o1 = o2

C5_Witness ==
    \E p \in Callers :
        /\ op[p] = "ReopenGeneralForumTopic" /\ Called(p)
        /\ sent[p][1].endpoint = "reopenGeneralForumTopic"

\* The invocation of caller p passed the local validation.
C6_Validated(p) ==
    /\ op[p] # "none"
    /\ ~(op[p] = "CreateForumTopic" /\ args[p].ft.nil)

\* C6: an invocation that passes the local validation has made exactly one
\* Raw call when it blocks and when it has returned; when Raw returns, the
\* invocation returns in the same step without another call, whatever Raw
\* returned; and its result stays as returned until the caller moves on.
C6_OneCallThenTerminal ==
    [][\A p \in Callers :
          /\ (pc'[p] = "raw" => Len(sent'[p]) = 1)
          /\ (pc'[p] = "done" /\ C6_Validated(p)' => Len(sent'[p]) = 1)
          /\ (pc[p] = "raw" /\ <<pc[p], reply[p]>> # <<pc'[p], reply'[p]>> =>
                 pc'[p] = "done" /\ sent'[p] = sent[p])
          /\ (pc[p] = "done" =>
                 \/ pc'[p] = "idle"
                 \/ pc'[p] = "done" /\ ret'[p] = ret[p] /\ sent'[p] = sent[p])
      ]_vars

C6_Witness ==
    \E p \in Callers :
        /\ Completed(p) /\ op[p] = "CreateForumTopic"
        /\ reply[p].err = NoError /\ ret[p].err.kind = "wrapped"
        /\ Len(sent[p]) = 1

\* s is the decimal numeral of n with no sign and no leading zero.
C7_Canonical(s, n) ==
    /\ AllDigits(s)
    /\ (Len(s) > 1 => s[1] # "0")
    /\ ParseUint(s) = n

\* C7: a non-negative thread id and a positive icon color are sent as their
\* canonical decimal numerals, which parse back to the integer.
C7_CanonicalDecimal ==
    \A p \in Callers :
        \A i \in 1..Len(sent[p]) :
            /\ (op[p] \in ThreadOps /\ args[p].msgThreadID >= 0) =>
                   /\ "message_thread_id" \in DOMAIN sent[p][i].params
                   /\ C7_Canonical(sent[p][i].params.message_thread_id,
                                   args[p].msgThreadID)
            /\ (op[p] = "CreateForumTopic" /\ args[p].ft.IconColor > 0) =>
                   /\ "icon_color" \in DOMAIN sent[p][i].params
                   /\ C7_Canonical(sent[p][i].params.icon_color,
                                   args[p].ft.IconColor)

C7_Witness ==
    \E p \in Callers :
        /\ op[p] = "EditForumTopic" /\ Called(p)
        /\ args[p].msgThreadID >= 100
        /\ Len(sent[p][1].params.message_thread_id) = 3

\* The mapping an invocation of o with arguments a is to build, by C2 and C7.
C8_OwnParams(o, a) ==
    LET chat == [chat_id |-> FormatInt(a.chat.ID)]
        thread == [chat_id |-> FormatInt(a.chat.ID),
                   message_thread_id |-> FormatInt(a.msgThreadID)]
    IN  CASE o = "CreateForumTopic" ->
                WithIf(WithIf([chat_id |-> FormatInt(a.chat.ID), name |-> a.ft.Name],
                              a.ft.IconColor # 0, "icon_color",
                              FormatInt(a.ft.IconColor)),
                       a.ft.IconCustomEmojiID # Str_Empty, "icon_custom_emoji_id",
                       a.ft.IconCustomEmojiID)
          [] o = "EditForumTopic" ->
                WithIf(WithIf(thread, a.name # Str_Empty, "name", a.name),
                       a.icon # Str_Empty, "icon_custom_emoji_id", a.icon)
          [] o \in ThreadOps \ {"EditForumTopic"} -> thread
          [] o = "EditGeneralForumTopic" ->
                [chat_id |-> FormatInt(a.chat.ID), name |-> a.name]
          [] o = "GetForumTopicIconStickers" -> NilParams
          [] OTHER -> chat

\* The return step of the operation caller p is blocked in.
C8_ReturnOf(p) ==
    \E r \in ConcReplies :
        \/ CreateForumTopicReturn(p, r)
        \/ EditForumTopicReturn(p, r)
        \/ CloseForumTopicReturn(p, r)
        \/ ReopenForumTopicReturn(p, r)
        \/ DeleteForumTopicReturn(p, r)
        \/ UnpinAllForumTopicMessagesReturn(p, r)
        \/ GetForumTopicIconStickersReturn(p, r)
        \/ EditGeneralForumTopicReturn(p, r)
        \/ CloseGeneralForumTopicReturn(p, r)
        \/ ReopenGeneralForumTopicReturn(p, r)
        \/ HideGeneralForumTopicReturn(p, r)
        \/ UnhideGeneralForumTopicReturn(p, r)

\* C8: under every interleaving of concurrent invocations, each Raw call
\* carries the endpoint of its own operation and the mapping built from its
\* own arguments, each invocation returns the outcome of its own call, and
\* no invocation has to wait for another: an idle caller can enter an
\* operation and a caller whose Raw call returns can return.
C8_ConcurrentInvocationsIndependent ==
    \A p \in Callers :
        /\ \A i \in 1..Len(sent[p]) :
               /\ sent[p][i].endpoint = C5_Endpoint[op[p]]
               /\ sent[p][i].params = C8_OwnParams(op[p], args[p])
        /\ (Completed(p) /\ reply[p].err # NoError => ret[p].err = reply[p].err)
        /\ (Completed(p) /\ reply[p].err = NoError /\ op[p] \in ErrorOnlyOps =>
                ret[p].err = NoError)
        /\ (pc[p] = "idle" => ENABLED GetForumTopicIconStickers(p))
        /\ (pc[p] = "raw" => ENABLED C8_ReturnOf(p))

C8_Witness ==
    \E p, q \in Callers :
        /\ p # q
        /\ pc[p] = "raw" /\ op[p] = "EditForumTopic"
        /\ Completed(q) /\ op[q] = "EditForumTopic"
        /\ args[p] # args[q]
        /\ sent[p][1].params # sent[q][1].params

\* C9: each of the ten operations that return only an error returns the
\* error of its Raw call, so it succeeds whenever the call does, whatever
\* the body is, and it never decodes the body.
C9_ErrorOnlyOpsReturnRawError ==
    \A p \in Callers :
        (Completed(p) /\ op[p] \in ErrorOnlyOps) =>
            /\ ret[p].err = reply[p].err
            /\ ret[p].err.kind # "wrapped"
            /\ ~decoded[p]

C9_Witness ==
    \E p \in Callers :
        /\ Completed(p) /\ op[p] = "HideGeneralForumTopic"
        /\ reply[p].err = NoError /\ reply[p].data = InvalidData
        /\ ret[p].err = NoError

\* The body is a JSON object in which every member that names Result is
\* null, or none does.
C10_ResultMissing(data) ==
    /\ data.kind = "json"
    /\ data.value.t = "object"
    /\ \A i \in 1..Len(data.value.members) :
           EqualFold(data.value.members[i].key, K_result) =>
               data.value.members[i].val = JNull

\* C10: when Raw succeeds and the body is a JSON object whose Result is
\* absent or null, CreateForumTopic returns a nil topic with a nil error and
\* GetForumTopicIconStickers a nil list with a nil error.
C10_MissingResultIsNilWithoutError ==
    \A p \in Callers :
        (Completed(p) /\ op[p] \in DecodingOps /\ reply[p].err = NoError
         /\ C10_ResultMissing(reply[p].data)) =>
            /\ ret[p].val.kind = "nil"
            /\ ret[p].err = NoError

C10_Witness ==
    \E p \in Callers :
        /\ Completed(p) /\ op[p] = "CreateForumTopic"
        /\ reply[p].err = NoError
        /\ reply[p].data = JSONData(JObj(<<Ok, M(K_result, JNull)>>))
        /\ ret[p].val.kind = "nil" /\ ret[p].err = NoError

====
